---- MODULE Spec2Model ----
(***************************************************************************)
(* Model of md2pdf.py: the markdown normalizer (preprocess_markdown) as a  *)
(* pure function over character sequences, and the conversion pipeline     *)
(* (main, convert_md_to_html, convert_html_to_pdf) as a state machine over *)
(* a small filesystem, for one process or two concurrent processes.        *)
(***************************************************************************)
EXTENDS Integers, Sequences, FiniteSets, TLC

(***************************************************************************)
(* Bounds                                                                  *)
(***************************************************************************)
\* longest markdown text given to the normalizer, in characters
MaxLen == 6

\* characters the bounded texts are drawn from
Alphabet == {"\n", " ", "-", "1", ".", "a"}

(***************************************************************************)
(* Character classes of the regular expressions and of str.strip           *)
(***************************************************************************)
\* \s of re and the characters str.strip() removes
Whitespace == {" ", "\t", "\n", "\r"}

\* \d
Digits == {"0", "1", "2", "3", "4", "5", "6", "7", "8", "9"}

\* [-*+]
Bullets == {"-", "*", "+"}

(***************************************************************************)
(* str.split('\n') and '\n'.join                                           *)
(***************************************************************************)
RECURSIVE split(_)
split(s) ==
    IF s = <<>> THEN << <<>> >>
    ELSE LET r == split(Tail(s))
         IN  IF Head(s) = "\n" THEN << <<>> >> \o r
             ELSE << <<Head(s)>> \o Head(r) >> \o Tail(r)

RECURSIVE join(_)
join(ls) ==
    IF ls = <<>> THEN <<>>
    ELSE IF Len(ls) = 1 THEN ls[1]
    ELSE ls[1] \o <<"\n">> \o join(Tail(ls))

(***************************************************************************)
(* re.match pieces: the index after a greedy run of a class, and the two   *)
(* marker patterns anchored at index i                                     *)
(***************************************************************************)
RECURSIVE SkipClass(_, _, _)
SkipClass(line, i, class) ==
    IF i <= Len(line) /\ line[i] \in class
    THEN SkipClass(line, i + 1, class)
    ELSE i

\* [-*+]\s at index i
MatchUnordered(line, i) ==
    /\ i + 1 <= Len(line)
    /\ line[i] \in Bullets
    /\ line[i + 1] \in Whitespace

\* \d+\.\s at index i
MatchOrderedNever(line, i) == FALSE

MatchOrdered(line, i) ==
    LET j == SkipClass(line, i, Digits)
    IN  /\ j > i
        /\ j + 1 <= Len(line)
        /\ line[j] = "."
        /\ line[j + 1] \in Whitespace

\* str.strip()
RECURSIVE rstrip(_)
rstrip(line) ==
    IF line # <<>> /\ line[Len(line)] \in Whitespace
    THEN rstrip(SubSeq(line, 1, Len(line) - 1))
    ELSE line

strip(line) ==
    LET i == SkipClass(line, 1, Whitespace)
    IN  rstrip(SubSeq(line, i, Len(line)))

\* line 24: re.match(r'^(\s*)[-*+]\s', line) or re.match(r'^(\s*)\d+\.\s', line)
is_list_item(line) ==
    LET i == SkipClass(line, 1, Whitespace)
    IN  MatchUnordered(line, i) \/ MatchOrdered(line, i)

\* line 29: re.match(r'^[-*+]\s', prev_line) or re.match(r'^\d+\.\s', prev_line)
prev_is_list(prev_line) ==
    MatchUnordered(prev_line, 1) \/ MatchOrdered(prev_line, 1)

\* lines 26-30 without the i > 0 guard: lines[i-1] of the first line is lines[-1]
InsertBlankNoGuard(lines, i) ==
    /\ is_list_item(lines[i])
    /\ LET prev_line == strip(lines[IF i > 1 THEN i - 1 ELSE Len(lines)])
       IN  prev_line # <<>> /\ ~prev_is_list(prev_line)

\* lines 26-30: whether the loop appends '' before lines[i] (1-based i)
InsertBlank(lines, i) ==
    /\ is_list_item(lines[i])
    /\ i > 1
    /\ LET prev_line == strip(lines[i - 1])
       IN  prev_line # <<>> /\ ~prev_is_list(prev_line)

\* lines 22-33: the loop, from index i with the result built so far
RECURSIVE PreLoop(_, _, _)
PreLoop(lines, i, result) ==
    IF i > Len(lines) THEN result
    ELSE PreLoop(lines, i + 1,
                 Append(IF InsertBlank(lines, i) THEN Append(result, <<>>) ELSE result,
                        lines[i]))

preprocess_markdown(content) == join(PreLoop(split(content), 1, <<>>))

(***************************************************************************)
(* Paths and file contents                                                 *)
(***************************************************************************)
\* file stems and suffixes of the modelled directory
Stems == {"a", "b"}

Suffixes == {"", ".md", ".html", ".pdf"}

Paths == [stem : Stems, suffix : Suffixes]

\* the two processes that may run a conversion
Procs == {1, 2}

\* what the renderer may leave on its standard error
Stderrs == {"", "crash"}

\* Path.with_suffix
with_suffix(path, suffix) == [path EXCEPT !.suffix = suffix]

\* line 251 with a fixed scratch name in place of the source's stem
HtmlPathFixed(md_file) == [stem |-> "a", suffix |-> ".html"]

\* line 251: html_file = md_file.with_suffix(".html")
HtmlPath(md_file) == with_suffix(md_file, ".html")

\* lines 245-248: the destination, given the arguments after the program name
PdfPath(argv) ==
    IF Len(argv) >= 2 THEN argv[2] ELSE with_suffix(argv[1], ".pdf")

Absent == [kind |-> "absent"]

\* the text a file holds before any conversion ran: one per path, each with
\* a list item that follows a paragraph line
InitialText(path) ==
    <<path.stem, "\n", "-", " ">> \o
        (IF path.suffix = "" THEN <<>>
         ELSE IF path.suffix = ".md" THEN <<"m">>
         ELSE IF path.suffix = ".html" THEN <<"h">>
         ELSE <<"p">>)

InitialContent(path) == [kind |-> "text", text |-> InitialText(path)]

\* a file of zero bytes
EmptyFile == [kind |-> "text", text |-> <<>>]

\* Path.read_text: the string of a text file; the string of a generated file
\* is kept as the file it came from
read_text(file) ==
    IF file.kind = "text" THEN [kind |-> "str", text |-> file.text]
    ELSE [kind |-> "str_of", file |-> file]

\* line 41: preprocess_markdown applied to the string read
Preprocessed(md_content) ==
    IF md_content.kind = "str"
    THEN [kind |-> "str", text |-> preprocess_markdown(md_content.text)]
    ELSE [kind |-> "preprocessed", of |-> md_content]

\* lines 43-185: the template around markdown.markdown(md_content, ...)
Html(md_content) == [kind |-> "html", body |-> md_content]

\* the PDF the renderer prints from an HTML document
Pdf(html) == [kind |-> "pdf", of |-> html]

\* Path.stat().st_size
st_size(file) ==
    IF file.kind = "text" THEN Len(file.text) ELSE 1

(***************************************************************************)
(* convert_html_to_pdf: discovery, command line, result interpretation     *)
(***************************************************************************)
chrome_paths ==
    << "/Applications/Google Chrome.app/Contents/MacOS/Google Chrome",
       "/usr/bin/google-chrome",
       "/usr/bin/chromium-browser",
       "/usr/bin/chromium" >>

NoChrome == ""

\* lines 200-204 keeping the last existing path instead of breaking at the first
LastExisting(exists) ==
    IF exists = {} THEN NoChrome
    ELSE chrome_paths[CHOOSE i \in exists : \A j \in exists : j <= i]

\* lines 200-204: the first path of chrome_paths that exists, or None
FirstExisting(exists) ==
    IF exists = {} THEN NoChrome
    ELSE chrome_paths[CHOOSE i \in exists : \A j \in exists : i <= j]

\* lines 211-217 with the HTML path given to --print-to-pdf
CmdSwapped(chrome_path, html_file, pdf_file) ==
    [bin |-> chrome_path, print_to_pdf |-> html_file, page |-> html_file]

\* lines 211-217: the command line
Cmd(chrome_path, html_file, pdf_file) ==
    [bin |-> chrome_path, print_to_pdf |-> pdf_file, page |-> html_file]

\* lines 221-228 testing the file before the exit code
ResultFileFirst(returncode, pdf_exists) ==
    IF pdf_exists THEN "ok"
    ELSE IF returncode # 0 THEN "failed"
    ELSE "no_output"

\* lines 221-228 without the else branch
ResultNoFileCheck(returncode, pdf_exists) ==
    IF returncode # 0 THEN "failed" ELSE "ok"

\* lines 221-228: ordered checks on the exit code and the destination file
Result(returncode, pdf_exists) ==
    IF returncode # 0 THEN "failed"
    ELSE IF pdf_exists THEN "ok"
    ELSE "no_output"

(***************************************************************************)
(* Messages                                                                *)
(***************************************************************************)
Msg(text, detail, size) == [text |-> text, detail |-> detail, size |-> size]

Usage == Msg("usage", "", 0)
FileNotFound == Msg("Error: File not found", "", 0)
Warning == Msg("Warning: Input file doesn't have .md extension", "", 0)
HtmlGenerated == Msg("HTML generated", "", 0)
PdfGenerated(size) == Msg("PDF generated", "", size)
Complete == Msg("Conversion complete", "", 0)
ChromeNotFound == Msg("Error: Chrome/Chromium not found", "", 0)
ChromeFailed(stderr) == Msg("Error: Chrome conversion failed", stderr, 0)
NotCreated == Msg("Error: PDF file was not created", "", 0)
OtherError(what) == Msg("Error", what, 0)

IsError(m) == m \in {FileNotFound, ChromeNotFound, NotCreated}
                 \/ m.text \in {"Error", "Error: Chrome conversion failed"}

(***************************************************************************)
(* State                                                                   *)
(***************************************************************************)
VARIABLES
    content,    \* the text handed to preprocess_markdown
    output,     \* the text it returned
    npc,        \* "input" before the call, "done" after, "off" in a pipeline run
    fs,         \* the directory: the content of each path, or Absent
    installed,  \* the indices of chrome_paths that exist
    procs,      \* the processes that run a conversion
    proc        \* per process: position, arguments, locals, output, history

nvars == <<content, output, npc>>
pvars == <<fs, installed, procs, proc>>
vars == <<content, output, npc, fs, installed, procs, proc>>

NoPath == [stem |-> "", suffix |-> ""]
Unset == [kind |-> "unset"]
NoCmd == [bin |-> "", print_to_pdf |-> NoPath, page |-> NoPath]

\* the order in which one conversion goes through its stages
StageOrder ==
    << "check_source", "read", "normalize", "compose", "write_html",
       "invoke", "verify", "report" >>

NewProc(argv) ==
    [ pc |-> "main", argv |-> argv,
      md_file |-> NoPath, pdf_file |-> NoPath, html_file |-> NoPath,
      md_content |-> Unset, html_content |-> Unset,
      chrome_path |-> NoChrome, cmd |-> NoCmd,
      returncode |-> -1, stderr |-> "",
      printed |-> <<>>, exit_status |-> -1,
      \* history
      stages |-> <<>>, spawned |-> 0, wrote |-> {},
      written_html |-> Unset, rendered |-> Unset ]

OffProc == [NewProc(<<>>) EXCEPT !.pc = "off"]

Texts == UNION {[1..n -> Alphabet] : n \in 0..MaxLen}

(***************************************************************************)
(* The normalizer alone                                                    *)
(***************************************************************************)
InitNorm ==
    /\ content \in Texts
    /\ output = <<>>
    /\ npc = "input"
    /\ fs = [p \in Paths |-> Absent]
    /\ installed = {}
    /\ procs = {}
    /\ proc = [p \in Procs |-> OffProc]

Normalize ==
    /\ npc = "input"
    /\ output' = preprocess_markdown(content)
    /\ npc' = "done"
    /\ UNCHANGED <<content, pvars>>

NextNorm == Normalize

SpecNorm == InitNorm /\ [][NextNorm]_vars

(***************************************************************************)
(* The pipeline                                                            *)
(***************************************************************************)
FilesOf(existing) ==
    [p \in Paths |-> IF p \in existing THEN InitialContent(p) ELSE Absent]

\* the paths of the first stem
PathsA == {p \in Paths : p.stem = "a"}

\* one conversion: any arguments over the first stem, any files present
InitPipe ==
    /\ content = <<>> /\ output = <<>> /\ npc = "off"
    /\ \E existing \in SUBSET PathsA : fs = FilesOf(existing)
    /\ installed \in SUBSET (1..Len(chrome_paths))
    /\ procs = {1}
    /\ \E argv \in {<<>>} \cup {<<s>> : s \in PathsA}
                         \cup {<<s, d>> : s \in PathsA, d \in PathsA} :
          proc = [p \in Procs |-> IF p = 1 THEN NewProc(argv) ELSE OffProc]

\* two conversions of two different existing files, destinations omitted
InitConc ==
    /\ content = <<>> /\ output = <<>> /\ npc = "off"
    /\ installed \in {{}, {2}}
    /\ procs = {1, 2}
    /\ \E s1 \in Paths, s2 \in Paths :
          /\ s1 # s2
          /\ fs = FilesOf({s1, s2})
          /\ proc = [p \in Procs |-> NewProc(IF p = 1 THEN <<s1>> ELSE <<s2>>)]

Set(p, new) == proc' = [proc EXCEPT ![p] = new]

Stage(r, name) == [r EXCEPT !.stages = Append(@, name)]

Emit(r, m) == [r EXCEPT !.printed = Append(@, m)]

\* sys.exit(code)
Exit(r, code) == [r EXCEPT !.exit_status = code, !.pc = "done"]

\* lines 260-262 where the handler prints and lets main return
HandlerNoExit(r, m) == [Emit(r, m) EXCEPT !.exit_status = 0, !.pc = "done"]

\* lines 260-262: except Exception as e: print(f"Error: {e}"); sys.exit(1)
Handler(r, m) == Exit(Emit(r, m), 1)

\* lines 232-251: argument count, source existence, warning, derived paths
MainStart(p) ==
    LET r == proc[p] IN
    /\ r.pc = "main"
    /\ UNCHANGED <<nvars, fs, installed, procs>>
    /\ \/ /\ Len(r.argv) < 1
          /\ Set(p, Exit(Emit(r, Usage), 1))
       \/ /\ Len(r.argv) >= 1
          /\ fs[r.argv[1]] = Absent
          /\ Set(p, Exit(Emit(Stage(r, "check_source"), FileNotFound), 1))
       \/ /\ Len(r.argv) >= 1
          /\ fs[r.argv[1]] # Absent
          /\ LET md_file == r.argv[1]
                 r1 == Stage(r, "check_source")
                 r2 == IF md_file.suffix # ".md" THEN Emit(r1, Warning) ELSE r1
             IN  Set(p, [r2 EXCEPT !.md_file = md_file,
                                   !.pdf_file = PdfPath(r.argv),
                                   !.html_file = HtmlPath(md_file),
                                   !.pc = "read"])

\* line 40: md_content = md_file.read_text()
ReadSource(p) ==
    LET r == Stage(proc[p], "read") IN
    /\ proc[p].pc = "read"
    /\ UNCHANGED <<nvars, fs, installed, procs>>
    /\ \/ /\ fs[r.md_file] # Absent
          /\ Set(p, [r EXCEPT !.md_content = read_text(fs[r.md_file]),
                              !.pc = "normalize"])
       \/ Set(p, Handler(r, OtherError("read_text")))

\* line 41: md_content = preprocess_markdown(md_content)
PreprocessSource(p) ==
    LET r == Stage(proc[p], "normalize") IN
    /\ proc[p].pc = "normalize"
    /\ UNCHANGED <<nvars, fs, installed, procs>>
    /\ Set(p, [r EXCEPT !.md_content = Preprocessed(r.md_content),
                        !.pc = "compose"])

\* lines 43-185: html_content = template around markdown.markdown(md_content)
ComposeHtml(p) ==
    LET r == Stage(proc[p], "compose") IN
    /\ proc[p].pc = "compose"
    /\ UNCHANGED <<nvars, fs, installed, procs>>
    /\ \/ Set(p, [r EXCEPT !.html_content = Html(r.md_content),
                           !.pc = "write_html"])
       \/ Set(p, Handler(r, OtherError("markdown")))

\* lines 187-188: html_file.write_text(html_content)
WriteHtml(p) ==
    LET r == Stage(proc[p], "write_html") IN
    /\ proc[p].pc = "write_html"
    /\ UNCHANGED <<nvars, installed, procs>>
    /\ \/ /\ fs' = [fs EXCEPT ![r.html_file] = r.html_content]
          /\ Set(p, [Emit(r, HtmlGenerated) EXCEPT
                        !.wrote = @ \cup {r.html_file},
                        !.written_html = r.html_content,
                        !.pc = "probe"])
       \/ /\ UNCHANGED fs
          /\ Set(p, Handler(r, OtherError("write_text")))

\* lines 193-209: binary discovery
ProbeChrome(p) ==
    LET r == Stage(proc[p], "invoke")
        chrome_path == FirstExisting(installed)
    IN
    /\ proc[p].pc = "probe"
    /\ UNCHANGED <<nvars, fs, installed, procs>>
    /\ \/ /\ chrome_path = NoChrome
          /\ Set(p, Handler(r, ChromeNotFound))
       \/ /\ chrome_path # NoChrome
          /\ Set(p, [r EXCEPT !.chrome_path = chrome_path, !.pc = "spawn"])

\* lines 211-219: subprocess.run starts the child, or raises OSError
SpawnRenderer(p) ==
    LET r == proc[p] IN
    /\ r.pc = "spawn"
    /\ UNCHANGED <<nvars, fs, installed, procs>>
    /\ \/ Set(p, [r EXCEPT !.cmd = Cmd(r.chrome_path, r.html_file, r.pdf_file),
                           !.spawned = @ + 1,
                           !.pc = "rendering"])
       \/ Set(p, Handler(r, OtherError("subprocess.run")))

\* the child process: loads the page, prints it or not, exits; line 219 returns
RendererExit(p) ==
    LET r == proc[p] IN
    /\ r.pc = "rendering"
    /\ UNCHANGED <<nvars, installed, procs>>
    /\ \E returncode \in {0, 1}, stderr \in Stderrs :
          \/ /\ UNCHANGED fs
             /\ Set(p, [r EXCEPT !.rendered = fs[r.cmd.page],
                                 !.returncode = returncode, !.stderr = stderr,
                                 !.pc = "verify"])
          \/ \E file \in {Pdf(fs[r.cmd.page]), EmptyFile} :
                /\ fs' = [fs EXCEPT ![r.cmd.print_to_pdf] = file]
                /\ Set(p, [r EXCEPT !.rendered = fs[r.cmd.page],
                                    !.wrote = @ \cup {r.cmd.print_to_pdf},
                                    !.returncode = returncode, !.stderr = stderr,
                                    !.pc = "verify"])

\* lines 221-228: interpretation of the result
VerifyPdf(p) ==
    LET r == Stage(proc[p], "verify")
        result == Result(r.returncode, fs[r.pdf_file] # Absent)
    IN
    /\ proc[p].pc = "verify"
    /\ UNCHANGED <<nvars, fs, installed, procs>>
    /\ \/ /\ result = "failed"
          /\ Set(p, Handler(r, ChromeFailed(r.stderr)))
       \/ /\ result = "no_output"
          /\ Set(p, Handler(r, NotCreated))
       \/ /\ result = "ok"
          /\ Set(p, [Emit(r, PdfGenerated(st_size(fs[r.pdf_file]))) EXCEPT
                        !.pc = "report"])

\* line 258, then main returns
ReportComplete(p) ==
    LET r == Stage(proc[p], "report") IN
    /\ proc[p].pc = "report"
    /\ UNCHANGED <<nvars, fs, installed, procs>>
    /\ Set(p, Exit(Emit(r, Complete), 0))

Next ==
    \E p \in procs :
        \/ MainStart(p)
        \/ ReadSource(p)
        \/ PreprocessSource(p)
        \/ ComposeHtml(p)
        \/ WriteHtml(p)
        \/ ProbeChrome(p)
        \/ SpawnRenderer(p)
        \/ RendererExit(p)
        \/ VerifyPdf(p)
        \/ ReportComplete(p)

\* one conversion
Spec == InitPipe /\ [][Next]_vars

\* two concurrent conversions
SpecConc == InitConc /\ [][Next]_vars

(***************************************************************************)
(* The normalizer's contract, stated on the lines of input and output      *)
(***************************************************************************)
\* a line of only whitespace (or empty)
BlankLine(line) == \A j \in 1..Len(line) : line[j] \in Whitespace

\* optional leading whitespace, then a bullet and whitespace, or digits, '.', whitespace
ListItemLine(line) ==
    \E k \in 0..Len(line) :
        /\ \A j \in 1..k : line[j] \in Whitespace
        /\ \/ /\ k + 2 <= Len(line)
              /\ line[k + 1] \in Bullets
              /\ line[k + 2] \in Whitespace
           \/ \E d \in 1..Len(line) :
                /\ k + d + 2 <= Len(line)
                /\ \A j \in (k + 1)..(k + d) : line[j] \in Digits
                /\ line[k + d + 1] = "."
                /\ line[k + d + 2] \in Whitespace

\* position in outl of each line of inl, matching greedily and skipping
\* empty lines of outl that do not match; 0 where no position is found
RECURSIVE EmbedFrom(_, _, _, _)
EmbedFrom(inl, outl, i, j) ==
    IF i > Len(inl) THEN <<>>
    ELSE IF j > Len(outl) THEN [k \in 1..(Len(inl) - i + 1) |-> 0]
    ELSE IF outl[j] = inl[i] THEN <<j>> \o EmbedFrom(inl, outl, i + 1, j + 1)
    ELSE IF outl[j] = <<>> THEN EmbedFrom(inl, outl, i, j + 1)
    ELSE [k \in 1..(Len(inl) - i + 1) |-> 0]

LinePos(inl, outl) == EmbedFrom(inl, outl, 1, 1)

\* outl is inl with nothing but empty lines inserted
OnlyEmptyInserted(inl, outl) ==
    LET pos == LinePos(inl, outl)
    IN  /\ \A i \in 1..Len(inl) : pos[i] > 0
        /\ \A j \in 1..Len(outl) :
              (\A i \in 1..Len(inl) : pos[i] # j) => outl[j] = <<>>

\* line i of the input follows a non-blank line that is not a list item line
Qualifies(inl, i) ==
    /\ i > 1
    /\ ListItemLine(inl[i])
    /\ ~BlankLine(inl[i - 1])
    /\ ~ListItemLine(inl[i - 1])

\* C1: the output keeps every input line, unmodified and in order, adding
\* only empty lines; every list item line that follows a non-blank line that
\* is not a list item line has exactly one empty line directly before it;
\* a text with no list item line is returned as it is.
C1_Theorem ==
    npc = "done" =>
        LET inl == split(content)
            outl == split(output)
            pos == LinePos(inl, outl)
        IN  /\ OnlyEmptyInserted(inl, outl)
            /\ \A i \in 1..Len(inl) :
                  Qualifies(inl, i) =>
                      /\ pos[i] = pos[i - 1] + 2
                      /\ outl[pos[i] - 1] = <<>>
            /\ (\A i \in 1..Len(inl) : ~ListItemLine(inl[i])) => output = content

C1_Witness ==
    /\ npc = "done"
    /\ content = <<"a", "\n", "1", ".", " ">>
    /\ output = <<"a", "\n", "\n", "1", ".", " ">>

\* C3: the first line of the output is the first line of the input.
C3_Theorem ==
    npc = "done" => split(output)[1] = split(content)[1]

C3_Witness ==
    /\ npc = "done"
    /\ content = <<"-", " ", "a", "\n", "a">>
    /\ output = content

\* C2: no line is inserted before a list item line whose preceding input
\* line is blank or is itself a list item line, an item whose marker is
\* followed only by whitespace included.
C2_NoInsertAfterBlankOrItem ==
    npc = "done" =>
        LET inl == split(content)
            outl == split(output)
            pos == LinePos(inl, outl)
        IN  \A i \in 2..Len(inl) :
                (ListItemLine(inl[i]) /\ (BlankLine(inl[i - 1]) \/ ListItemLine(inl[i - 1])))
                    => pos[i] = pos[i - 1] + 1

(***************************************************************************)
(* The pipeline's contract                                                 *)
(***************************************************************************)
Printed(r, m) == \E i \in 1..Len(r.printed) : r.printed[i] = m

LastPrinted(r) == r.printed[Len(r.printed)]

IsPrefix(s, t) == Len(s) <= Len(t) /\ \A i \in 1..Len(s) : s[i] = t[i]

Reached(r, stage) == \E i \in 1..Len(r.stages) : r.stages[i] = stage

\* the renderer has exited and its result has been interpreted
Interpreted(r) == r.returncode # -1 /\ r.pc \in {"report", "done"}

C5_Theorem ==
    \A p \in procs :
        LET r == proc[p] IN
        Interpreted(r) =>
            /\ r.returncode # 0 =>
                  /\ LastPrinted(r) = ChromeFailed(r.stderr)
                  /\ r.exit_status = 1
            /\ (r.returncode = 0 /\ fs[r.pdf_file] = Absent) =>
                  /\ LastPrinted(r) = NotCreated
                  /\ r.exit_status = 1
            /\ (r.pc = "done" /\ r.returncode = 0 /\ fs[r.pdf_file] # Absent) =>
                  /\ LastPrinted(r) = Complete
                  /\ r.exit_status = 0
            /\ Printed(r, Complete) =>
                  (r.returncode = 0 /\ fs[r.pdf_file] # Absent)

C5_Witness ==
    /\ proc[1].pc = "done"
    /\ proc[1].returncode = 1
    /\ fs[proc[1].pdf_file] = Pdf(proc[1].written_html)
    /\ LastPrinted(proc[1]) = ChromeFailed("crash")
    /\ proc[1].exit_status = 1

\* C6 as stated: success is reported only if the destination exists and has
\* non-zero size.
C6_SuccessOnlyIfNonEmpty ==
    \A p \in procs :
        LET r == proc[p] IN
        Printed(r, Complete) =>
            (fs[r.pdf_file] # Absent /\ st_size(fs[r.pdf_file]) > 0)

\* C6 amended: success is reported only if the renderer was run, exited with
\* code zero and the destination exists; the size is only reported, so a
\* zero-byte destination after exit code zero does lead to success.
C6_Theorem ==
    \A p \in procs :
        LET r == proc[p] IN
        /\ Printed(r, Complete) =>
              /\ r.spawned = 1
              /\ r.returncode = 0
              /\ fs[r.pdf_file] # Absent
              /\ Printed(r, PdfGenerated(st_size(fs[r.pdf_file])))
        /\ (r.pc = "done" /\ r.returncode = 0 /\ fs[r.pdf_file] = EmptyFile) =>
              Printed(r, Complete)

C6_Witness ==
    /\ proc[1].pc = "done"
    /\ Printed(proc[1], Complete)
    /\ Printed(proc[1], PdfGenerated(0))
    /\ fs[proc[1].pdf_file] = EmptyFile

\* C7: the stages run in the fixed order; the renderer is invoked only after
\* the intermediate HTML was written; an error or usage message is the last
\* thing printed and ends the run with exit status 1, with no effect of a
\* later stage; success is reported only after every stage, with exit status
\* 0; a missing source ends the run with no file written and no child spawned.
C7_Theorem ==
    \A p \in procs :
        LET r == proc[p] IN
        /\ IsPrefix(r.stages, StageOrder)
        /\ r.spawned > 0 => (Reached(r, "write_html") /\ r.html_file \in r.wrote)
        /\ \A i \in 1..Len(r.printed) :
              (IsError(r.printed[i]) \/ r.printed[i] = Usage) =>
                  /\ i = Len(r.printed)
                  /\ r.pc = "done"
                  /\ r.exit_status = 1
        /\ ~Reached(r, "write_html") => r.wrote = {}
        /\ ~Reached(r, "invoke") => (r.spawned = 0 /\ r.wrote \subseteq {r.html_file})
        /\ Printed(r, Complete) =>
              /\ r.stages = StageOrder
              /\ r.exit_status = 0
              /\ r.pc = "done"
        /\ r.pc = "done" => (r.exit_status = 0 <=> Printed(r, Complete))
        /\ (r.pc = "done" /\ Len(r.argv) >= 1 /\ fs[r.argv[1]] = Absent) =>
              /\ LastPrinted(r) = FileNotFound
              /\ r.exit_status = 1
              /\ r.wrote = {}
              /\ r.spawned = 0

C7_Witness ==
    /\ proc[1].pc = "done"
    /\ proc[1].stages = SubSeq(StageOrder, 1, 5)
    /\ LastPrinted(proc[1]) = OtherError("write_text")
    /\ proc[1].exit_status = 1
    /\ proc[1].wrote = {}
    /\ proc[1].spawned = 0

\* C8 as stated: once written, the intermediate HTML file keeps the content
\* written until the pipeline ends, on every outcome.
C8_HtmlKept ==
    \A p \in procs :
        LET r == proc[p] IN
        r.written_html # Unset => fs[r.html_file] = r.written_html

\* C8 amended: when the destination is not the intermediate HTML file itself,
\* the intermediate HTML file keeps the content written until the pipeline
\* ends, on every outcome.
C8_Theorem ==
    \A p \in procs :
        LET r == proc[p] IN
        (r.written_html # Unset /\ r.pdf_file # r.html_file) =>
            fs[r.html_file] = r.written_html

C8_Witness ==
    /\ proc[1].pc = "done"
    /\ proc[1].pdf_file # proc[1].html_file
    /\ proc[1].written_html # Unset
    /\ fs[proc[1].html_file] = proc[1].written_html
    /\ proc[1].pdf_file \in proc[1].wrote
    /\ LastPrinted(proc[1]) = ChromeFailed("crash")

\* the HTML document composed from the file a source path held at the start
OwnHtml(md_file) == Html(Preprocessed(read_text(InitialContent(md_file))))

\* C9 as stated: two conversions of different source files have different
\* intermediate files, and each renderer reads the HTML composed from its
\* own source.
C9_DifferentSourcesIndependent ==
    \A p \in procs, q \in procs :
        (p # q /\ proc[p].argv # proc[q].argv) =>
            /\ (proc[p].html_file # NoPath /\ proc[q].html_file # NoPath) =>
                  proc[p].html_file # proc[q].html_file
            /\ proc[p].rendered # Unset =>
                  proc[p].rendered = OwnHtml(proc[p].md_file)

\* C9 amended: two conversions share an intermediate file exactly when their
\* sources have the same stem; when the stems differ, each renderer reads the
\* HTML composed from its own source.
C9_Theorem ==
    \A p \in procs, q \in procs :
        (p # q /\ proc[p].html_file # NoPath /\ proc[q].html_file # NoPath) =>
            /\ proc[p].html_file = proc[q].html_file
                  <=> proc[p].md_file.stem = proc[q].md_file.stem
            /\ (proc[p].md_file.stem # proc[q].md_file.stem
                    /\ proc[p].rendered # Unset) =>
                  proc[p].rendered = OwnHtml(proc[p].md_file)

C9_Witness ==
    /\ proc[1].pc = "done" /\ proc[2].pc = "done"
    /\ proc[1].md_file.stem # proc[2].md_file.stem
    /\ proc[1].rendered = OwnHtml(proc[1].md_file)
    /\ proc[2].rendered = OwnHtml(proc[2].md_file)
    /\ proc[1].html_file # proc[2].html_file

\* C10: with the destination omitted, the intermediate HTML path and the
\* destination differ from the source path, and the source file keeps the
\* content it had.
C10_SourceUntouched ==
    \A p \in procs :
        LET r == proc[p] IN
        (Len(r.argv) = 1 /\ r.md_file # NoPath) =>
            /\ r.html_file # r.md_file
            /\ r.pdf_file # r.md_file
            /\ fs[r.md_file] = InitialContent(r.md_file)

====
